---- MODULE Spec2Model ----
(***************************************************************************)
(* Model of the hybrid search engine of LawlyAI                            *)
(* (src/backend/hybrid_search.py, class HybridSearcher).                   *)
(*                                                                         *)
(* A built searcher holds a dataset of dataset_len documents.  For the     *)
(* query under consideration the dense index yields one cosine similarity  *)
(* per document (dense_all) and the BM25 index one score per document      *)
(* (bm25_scores_all).  Scores are integers; normalized and combined        *)
(* scores are exact rationals <<numerator, denominator>> in lowest terms.  *)
(* Document positions are 0-based as in the source.                        *)
(***************************************************************************)
EXTENDS Integers, Sequences, FiniteSets, TLC

(* ------------------------------ bounds -------------------------------- *)

\* Small corpora hold 1..MaxSmallDocs documents, all with free scores.
MaxSmallDocs == 2
\* Large corpora hold candidate_limit + 1 .. candidate_limit + ExtraDocs
\* documents.
ExtraDocs == 1
\* The highest free score; the other free scores are 0 and 1.
HighScore == 60
\* top_k is -MaxNegK, 0, 1, MaxSmallK or LargeK.
MaxNegK == 1
MaxSmallK == 2
LargeK == 26
\* A persisted collection under construction holds 0..MaxBuildDocs documents;
\* a cached BM25 index was built from 1..MaxBuildDocs + 1 documents.
MaxBuildDocs == 2
\* The collection behind the running service holds ServiceDocs documents.
ServiceDocs == 2
\* number of write calls pickle.dump makes for one index
PickleChunks == 2
\* the clock of the email service runs from minute 0 to minute MaxTime
MaxTime == 3
\* number of direct calls of add_email that are followed
MaxAdds == 4
MaxOutbox == 3

(* ------------------------- program constants -------------------------- *)

\* candidate_limit = 50
candidate_limit == 50
\* combined_score = 0.7 * d_norm + 0.3 * s_norm, weights in tenths
DenseWeight == 7
SparseWeight == 3
WeightScale == 10
\* faiss fills the rows it cannot fill with label -1 and, for an inner
\* product index, the distance -FLT_MAX (-3.4028235e38).
MissingLabel == -1
FltMax == 100000
NegFltMax == 0 - FltMax
\* row.get("document", "")[:200] + "..."
SnippetLimit == 200
\* HTTP status codes of the /search-legal endpoint
StatusOK == 200
StatusUnavailable == 503
StatusServerError == 500
\* timedelta(minutes=2): the window in which a similar sent email counts as
\* a duplicate
RecentMinutes == 2
\* save_processed_email keeps the last 1000 entries
ProcessedKept == 1000

VARIABLES
    dataset_len,       \* len(self.dataset)
    documents,         \* the "document" column: length of each row's text
    dense_all,         \* cosine similarity of the query to every document
    bm25_scores_all,   \* self.bm25.get_scores(tokenized_query)
    faiss_order,       \* positions by descending inner product with the query
    argsort_result,    \* np.argsort(bm25_scores_all)
    last_call,         \* "none", "search" or "_normalize_scores"
    top_k,             \* argument top_k of the last call of search
    candidate_k,       \* local candidate_k of the last call
    dense_hits,        \* local dense_hits of the last call
    sparse_hits,       \* local sparse_hits of the last call
    appended,          \* combined_results before the sort
    combined_results,  \* combined_results after the sort
    final_output,      \* value returned by the last call
    normalized,        \* value returned by the last call of _normalize_scores
    store,             \* the persisted collection at dataset_path
    cache_file,        \* dataset_path/bm25_index.pkl
    cache_writable,    \* whether the cache file can be written
    build_pc,          \* position of HybridSearcher.__init__
    build_error,       \* the exception __init__ raised, "none" if none
    faiss_ntotal,      \* self.faiss_index.ntotal
    bm25,              \* self.bm25
    available,         \* HYBRID_SEARCH_AVAILABLE
    lifespan_pc,       \* position of the service's lifespan handler
    searcher,          \* the global searcher: "None" or "HybridSearcher"
    req,               \* per worker thread: the /search-legal request it serves
    cache_bytes,       \* bm25_index.pkl as the chunks written to it
    proc,              \* per process constructing a searcher: its position
    now,               \* datetime.utcnow(), in minutes
    threads,           \* table email_threads: thread_id -> row
    messages,          \* table email_messages, in insertion order
    inbox,             \* the IMAP inbox: uid -> "absent", "unseen" or "seen"
    processed,         \* table processed_emails: the uids, oldest first
    outbox,            \* the replies send_email_tool has sent
    listener,          \* the email listener: position of process_emails
    added              \* the direct calls of add_email made, with their results

searchVars == <<dataset_len, documents, dense_all, bm25_scores_all,
                faiss_order, argsort_result, last_call, top_k,
                candidate_k, dense_hits, sparse_hits, appended,
                combined_results, final_output, normalized>>
buildVars == <<store, cache_file, cache_writable, build_pc, build_error,
               faiss_ntotal, bm25>>
serviceVars == <<available, lifespan_pc, searcher, req>>
raceVars == <<cache_bytes, proc>>
mailVars == <<now, threads, messages, inbox, processed, outbox, listener,
              added>>
vars == <<searchVars, buildVars, serviceVars, raceVars, mailVars>>

(* ------------------------------ helpers ------------------------------- *)

Min(a, b) == IF a < b THEN a ELSE b
Max(a, b) == IF a > b THEN a ELSE b

SetMin(S) == CHOOSE x \in S : \A y \in S : x <= y
SetMax(S) == CHOOSE x \in S : \A y \in S : x >= y

Range(f) == {f[x] : x \in DOMAIN f}

Reverse(s) == [i \in 1..Len(s) |-> s[Len(s) + 1 - i]]

RECURSIVE GCD(_, _)
GCD(a, b) == IF b = 0 THEN a ELSE GCD(b, a % b)

\* The rational n/d (n >= 0, d > 0) in lowest terms.
Rat(n, d) == LET g == GCD(n, d) IN <<n \div g, d \div g>>
RatZero == <<0, 1>>
RatLess(a, b) == a[1] * b[2] < b[1] * a[2]
RatLeq(a, b) == a[1] * b[2] <= b[1] * a[2]

\* float32 subtraction a - b.  A score of magnitude about 1 is absorbed
\* when it is added to FLT_MAX: x - (-FLT_MAX) rounds to FLT_MAX.
F32Sub(a, b) ==
    IF a = b THEN 0
    ELSE IF b = NegFltMax THEN FltMax
    ELSE IF a = NegFltMax THEN NegFltMax
    ELSE a - b

(* ------------------------------ corpus -------------------------------- *)

Positions == 0 .. dataset_len - 1

CorpusSizes == (1 .. MaxSmallDocs)
               \cup ((candidate_limit + 1) .. (candidate_limit + ExtraDocs))
\* The positions whose scores are chosen freely: every position of a small
\* corpus, the positions FreeInLarge of a large one.
FreeInLarge == {0, 1}
FreePositions(n) == IF n <= MaxSmallDocs THEN 0 .. n - 1 ELSE FreeInLarge
ScoreVals == {0, 1, HighScore}
\* Documents outside the free positions have scores between the low scores
\* and HighScore.  Their BM25 scores are pairwise distinct; their dense
\* scores are pairwise distinct and in the reverse order of the BM25 scores
\* ("distinct"), or all equal to 1 ("flat").
BackgroundShapes == {"distinct", "flat"}
\* The query's tokens occur in the documents ("scored") or in none of them
\* ("zero": BM25 score 0 for every document).
Bm25Shapes == {"scored", "zero"}
\* Texts are represented by their length in characters: empty, shorter than
\* the snippet, exactly as long, longer.
TextLens == <<0, SnippetLimit - 50, SnippetLimit, SnippetLimit + 50>>
TextLenAt(n, i) == TextLens[((i + n) % Len(TextLens)) + 1]
DenseBackground(shape, i) == IF shape = "flat" THEN 1 ELSE 2 + i
Bm25Background(n, i) == 2 + (n - i)

\* np.argsort: positions in ascending order of score.  The order of equal
\* scores is not specified for the default sort kind; prio resolves it.
ArgsortWith(n, scores, prio) ==
    LET Before(i, j) == \/ scores[i] < scores[j]
                        \/ scores[i] = scores[j] /\ prio[i] < prio[j]
        rank == [i \in 0 .. n - 1 |->
                    Cardinality({j \in 0 .. n - 1 : Before(j, i)})]
        pairs == {<<rank[i], i>> : i \in 0 .. n - 1}
    IN  [p \in 1 .. n |-> (CHOOSE pr \in pairs : pr[1] = p - 1)[2]]

\* The exhaustive inner-product scan of IndexFlatIP ranks the positions by
\* descending score, equal scores by ascending position.
FaissOrder(n, scores) ==
    LET Before(i, j) == \/ scores[i] > scores[j]
                        \/ scores[i] = scores[j] /\ i < j
        pairs == {<<Cardinality({j \in 0 .. n - 1 : Before(j, i)}), i>> :
                     i \in 0 .. n - 1}
    IN  [p \in 1 .. n |-> (CHOOSE pr \in pairs : pr[1] = p - 1)[2]]

TiePriorities(n) ==
    LET F == FreePositions(n)
    IN  {[i \in 0 .. n - 1 |-> IF i \in F THEN f[i] ELSE i] :
            f \in {g \in [F -> F] : \A a, b \in F : a # b => g[a] # g[b]}}

(* ------------------------------- search ------------------------------- *)

\* self.faiss_index.search(query_embedding, k): k rows (label, distance),
\* the best positions by inner product first; if the index holds fewer than
\* k vectors the remaining rows are (-1, -FLT_MAX).
faiss_index_search(k) ==
    SubSeq([p \in 1 .. k |->
               IF p <= dataset_len
               THEN <<faiss_order[p], dense_all[faiss_order[p]]>>
               ELSE <<MissingLabel, NegFltMax>>], 1, k)

\* dict(zip(labels, distances)) over the first m rows: a later row replaces
\* an earlier row with the same label.
RECURSIVE DictOfRows(_, _)
DictOfRows(rows, m) ==
    IF m = 0 THEN <<>>
    ELSE (rows[m][1] :> rows[m][2]) @@ DictOfRows(rows, m - 1)

DictOf(rows) == DictOfRows(rows, Len(rows))

TopBm25Indices_Lowest(limit) ==
    SubSeq(argsort_result, 1, Min(limit, Len(argsort_result)))

\* np.argsort(bm25_scores_all)[::-1][:limit]
TopBm25Indices(limit) ==
    SubSeq(Reverse(argsort_result), 1, Min(limit, Len(argsort_result)))

AllIndices_Intersection(dh, sh) == DOMAIN dh \cap DOMAIN sh

\* all_indices = set(dense_hits.keys()) | set(sparse_hits.keys())
AllIndices(dh, sh) == DOMAIN dh \cup DOMAIN sh

\* Iteration order of the set all_indices: CPython walks the hash table by
\* slot; an int hashes to itself, -1 hashes to -2 and lands in the last but
\* one slot.  The order is a function of the set.
SetIterOrder(S) ==
    LET all == [i \in 1 .. dataset_len + 1 |->
                   IF i <= dataset_len THEN i - 1 ELSE MissingLabel]
        InS(x) == x \in S
    IN  SelectSeq(all, InS)

\* min(vals), max(vals) of a non-empty list
RECURSIVE SeqMin(_, _)
SeqMin(s, m) == IF m = 1 THEN s[1] ELSE Min(SeqMin(s, m - 1), s[m])
RECURSIVE SeqMax(_, _)
SeqMax(s, m) == IF m = 1 THEN s[1] ELSE Max(SeqMax(s, m - 1), s[m])

NormFn_Inverted(lo, hi, x) ==
    IF hi > lo THEN Rat(F32Sub(hi, x), F32Sub(hi, lo)) ELSE <<0, 1>>

NormFn_EqualIsOne(lo, hi, x) ==
    IF hi > lo THEN Rat(F32Sub(x, lo), F32Sub(hi, lo)) ELSE <<1, 1>>

\* d_norm_fn / s_norm_fn of a non-empty pool with minimum lo and maximum hi:
\* lambda x: (x - lo) / (hi - lo) if hi > lo else 0.0
NormFn(lo, hi, x) ==
    IF hi > lo THEN Rat(F32Sub(x, lo), F32Sub(hi, lo)) ELSE RatZero

\* HybridSearcher._normalize_scores(scores)
_normalize_scores(scores) ==
    IF Len(scores) = 0 THEN scores
    ELSE LET min_score == SeqMin(scores, Len(scores))
             max_score == SeqMax(scores, Len(scores))
         IN  IF max_score = min_score
             THEN [p \in 1 .. Len(scores) |-> RatZero]
             ELSE [p \in 1 .. Len(scores) |->
                      Rat(scores[p] - min_score, max_score - min_score)]

CombinedScore_WeightsSwapped(d, s) ==
    Rat(SparseWeight * d[1] * s[2] + DenseWeight * s[1] * d[2],
        WeightScale * d[2] * s[2])

CombinedScore_Unweighted(d, s) == Rat(d[1] * s[2] + s[1] * d[2], d[2] * s[2])

\* 0.7 * d_norm + 0.3 * s_norm
CombinedScore(d, s) ==
    Rat(DenseWeight * d[1] * s[2] + SparseWeight * s[1] * d[2],
        WeightScale * d[2] * s[2])

\* min and max of a pool's values, as the branch on dense_vals / sparse_vals
\* computes them before the lambda is built
PoolStats(vals) ==
    IF Len(vals) > 0
    THEN [nonempty |-> TRUE, lo |-> SeqMin(vals, Len(vals)),
          hi |-> SeqMax(vals, Len(vals))]
    ELSE [nonempty |-> FALSE, lo |-> 0, hi |-> 0]

\* d_norm_fn(x) / s_norm_fn(x) for the pool with statistics st
NormOf(st, x) == IF st.nonempty THEN NormFn(st.lo, st.hi, x) ELSE RatZero

\* the record appended for idx; dst and sst carry d_norm_fn and s_norm_fn
CandidateRecord(dh, sh, dst, sst, idx) ==
    LET d_raw == IF idx \in DOMAIN dh THEN dh[idx] ELSE 0
        s_raw == IF idx \in DOMAIN sh THEN sh[idx] ELSE 0
        d_norm == IF idx \in DOMAIN dh THEN NormOf(dst, d_raw) ELSE RatZero
        s_norm == IF idx \in DOMAIN sh THEN NormOf(sst, s_raw) ELSE RatZero
    IN  [idx |-> idx, dense_score |-> d_raw, bm25_score |-> s_raw,
         d_norm |-> d_norm, s_norm |-> s_norm,
         combined_score |-> CombinedScore(d_norm, s_norm)]

RECURSIVE MergeDesc_TiesFromRight(_, _)
MergeDesc_TiesFromRight(a, b) ==
    IF a = <<>> THEN b
    ELSE IF b = <<>> THEN a
    ELSE IF RatLeq(Head(a).combined_score, Head(b).combined_score)
         THEN <<Head(b)>> \o MergeDesc_TiesFromRight(a, Tail(b))
         ELSE <<Head(a)>> \o MergeDesc_TiesFromRight(Tail(a), b)

\* list.sort(key=lambda x: x["combined_score"], reverse=True): a stable
\* merge sort; of two records with equal keys the one that came first in the
\* list stays first.
RECURSIVE MergeDesc_Ascending(_, _)
MergeDesc_Ascending(a, b) ==
    IF a = <<>> THEN b
    ELSE IF b = <<>> THEN a
    ELSE IF RatLess(Head(b).combined_score, Head(a).combined_score)
         THEN <<Head(b)>> \o MergeDesc_Ascending(a, Tail(b))
         ELSE <<Head(a)>> \o MergeDesc_Ascending(Tail(a), b)

RECURSIVE MergeDesc(_, _)
MergeDesc(a, b) ==
    IF a = <<>> THEN b
    ELSE IF b = <<>> THEN a
    ELSE IF RatLess(Head(a).combined_score, Head(b).combined_score)
         THEN <<Head(b)>> \o MergeDesc(a, Tail(b))
         ELSE <<Head(a)>> \o MergeDesc(Tail(a), b)

RECURSIVE SortByCombinedScore(_)
SortByCombinedScore(s) ==
    IF Len(s) <= 1 THEN s
    ELSE LET h == Len(s) \div 2
         IN  MergeDesc(SortByCombinedScore(SubSeq(s, 1, h)),
                       SortByCombinedScore(SubSeq(s, h + 1, Len(s))))

SlicePrefix_OneMore(s, k) ==
    IF k >= 0 THEN SubSeq(s, 1, Min(k + 1, Len(s)))
    ELSE SubSeq(s, 1, Max(Len(s) + k, 0))

\* Python slice s[:k]
SlicePrefix(s, k) ==
    IF k >= 0 THEN SubSeq(s, 1, Min(k, Len(s)))
    ELSE SubSeq(s, 1, Max(Len(s) + k, 0))

\* self.dataset[int(idx)]: the row read, named by its position; a negative
\* index counts from the end of the dataset.
DatasetRow(idx) == IF idx < 0 THEN dataset_len + idx ELSE idx

\* text[:200] + "...": the first min(200, len) characters of the text, then
\* the three-character marker
Snippet(text) == [prefix |-> Min(text, SnippetLimit), marker |-> TRUE]

Materialize(res) ==
    [doc |-> DatasetRow(res.idx),
     snippet |-> Snippet(documents[DatasetRow(res.idx)]),
     document |-> documents[DatasetRow(res.idx)],
     dense_score |-> res.dense_score,
     bm25_score |-> res.bm25_score,
     combined_score |-> res.combined_score]

(* ---------------------------- construction --------------------------- *)

NoCacheFile == [kind |-> "absent", docs |-> 0]
\* pickle.dump(self.bm25, f) of an index over n documents
PickledIndex(n) == [kind |-> "index", docs |-> n]
NoBm25 == [kind |-> "none", docs |-> 0, source |-> "none"]
\* BM25Okapi(self.tokenized_docs) over the n texts of the collection
BM25Okapi(n) == [kind |-> "index", docs |-> n, source |-> "rebuilt"]

\* The cache file is absent, holds the pickle of a BM25 index over some number
\* of documents (of this collection or of another one), holds the pickle of
\* some other object, holds bytes that are no pickle ("garbage"), or cannot be
\* opened ("unreadable").
CacheFiles ==
    {NoCacheFile}
    \cup {PickledIndex(m) : m \in 1 .. MaxBuildDocs + 1}
    \cup {[kind |-> k, docs |-> 0] : k \in {"object", "garbage", "unreadable"}}

Columns == {"embedding", "document"}
Stores ==
    {[exists |-> FALSE, docs |-> 0, columns |-> {}]}
    \cup {[exists |-> TRUE, docs |-> n, columns |-> c] :
             n \in 0 .. MaxBuildDocs, c \in SUBSET Columns}

\* _build_faiss_index on the loaded dataset st: the error raised ("none" if
\* none) and the size of the index.  np.array of an empty embedding column
\* has shape (0,), so normalize_L2 and embeddings.shape[1] raise IndexError.
_build_faiss_index(st) ==
    IF "embedding" \notin st.columns
    THEN [error |-> "ValueError: embedding", ntotal |-> 0]
    ELSE IF st.docs = 0
    THEN [error |-> "IndexError", ntotal |-> 0]
    ELSE [error |-> "none", ntotal |-> st.docs]

\* pickle.load(f) under try/except Exception: whether an object is obtained
CacheLoads(cache) == cache.kind \in {"index", "object"}

\* _build_bm25_index: the error raised, self.bm25 and the cache file afterwards
_build_bm25_index(st, cache, writable) ==
    IF cache.kind # "absent" /\ CacheLoads(cache)
    THEN [error |-> "none",
          bm25 |-> [kind |-> cache.kind, docs |-> cache.docs,
                    source |-> "cache"],
          cache |-> cache]
    ELSE IF "document" \notin st.columns
    THEN [error |-> "ValueError: document", bm25 |-> NoBm25, cache |-> cache]
    ELSE [error |-> "none",
          bm25 |-> BM25Okapi(st.docs),
          cache |-> IF writable THEN PickledIndex(st.docs) ELSE cache]

\* the construction variables of a searcher built from a collection of n
\* documents: the index was rebuilt from the texts and saved to the cache
BuiltSearcher(n) ==
    /\ store = [exists |-> TRUE, docs |-> n, columns |-> Columns]
    /\ cache_file = PickledIndex(n)
    /\ cache_writable = TRUE
    /\ build_pc = "built"
    /\ build_error = "none"
    /\ faiss_ntotal = n
    /\ bm25 = BM25Okapi(n)

\* worker threads of the service
Threads == {"t1", "t2"}
NoResponse == [status |-> 0, results |-> <<>>, detail |-> ""]
IdleRequest ==
    [pc |-> "idle", k |-> 0, called |-> FALSE, fault |-> "none",
     raised |-> "none", results |-> <<>>, response |-> NoResponse]
\* the service variables when a searcher is used directly, without a service
NoService ==
    /\ available = TRUE
    /\ lifespan_pc = "none"
    /\ searcher = "None"
    /\ req = [t \in Threads |-> IdleRequest]

\* processes that construct a searcher over the same collection
Procs == {"p1", "p2", "p3"}
\* bm25_index.pkl as a list of chunks; a chunk is one write call of
\* pickle.dump: part `part` of the pickle of the index over `of` documents,
\* written by process `by`.  A Hole is a chunk of bytes that are no pickle
\* data (the zero bytes before a write beyond the end of the file).
Hole == [of |-> 0, part |-> 0, by |-> "none"]
Chunk(n, part, p) == [of |-> n, part |-> part, by |-> p]
\* the bytes of a chunk: the pickles of equal indexes are equal byte by byte
Bytes(c) == <<c.of, c.part>>
NoCacheBytes == [exists |-> FALSE, data |-> <<>>]
NewProc == [pc |-> "start", offset |-> 0, stream |-> <<>>, bm25 |-> NoBm25,
            fellback |-> FALSE]
\* the race variables when one process constructs the searcher
NoRace ==
    /\ cache_bytes = NoCacheBytes
    /\ proc = [p \in Procs |-> NewProc]

\* the result of the last pass of the listener's loop body
NoPass == [uid |-> "", skipped |-> FALSE, replied |-> FALSE, sent |-> FALSE]
IdleListener == [pc |-> "idle", emails |-> <<>>, i |-> 0, auto_reply |-> TRUE,
                 last |-> NoPass]
\* the mail variables when no email service runs
NoMail ==
    /\ now = 0
    /\ threads = <<>>
    /\ messages = <<>>
    /\ inbox = <<>>
    /\ processed = <<>>
    /\ outbox = <<>>
    /\ listener = IdleListener
    /\ added = <<>>

\* The variables top_k .. final_output and normalized describe the most
\* recent call; they are cleared when another method is called.
NoSearchCall ==
    /\ top_k = 0
    /\ candidate_k = 0
    /\ dense_hits = <<>>
    /\ sparse_hits = <<>>
    /\ appended = <<>>
    /\ combined_results = <<>>
    /\ final_output = <<>>

NoNormalizeCall == [input |-> <<>>, output |-> <<>>]

Init ==
    /\ dataset_len \in CorpusSizes
    /\ \E fd \in [FreePositions(dataset_len) -> ScoreVals],
             shape \in BackgroundShapes :
          dense_all = [i \in 0 .. dataset_len - 1 |->
                          IF i \in DOMAIN fd THEN fd[i]
                          ELSE DenseBackground(shape, i)]
    /\ documents = [i \in 0 .. dataset_len - 1 |-> TextLenAt(dataset_len, i)]
    /\ \E bshape \in Bm25Shapes :
          IF bshape = "zero"
          THEN bm25_scores_all = [i \in 0 .. dataset_len - 1 |-> 0]
          ELSE \E fb \in [FreePositions(dataset_len) -> ScoreVals] :
                  bm25_scores_all = [i \in 0 .. dataset_len - 1 |->
                                        IF i \in DOMAIN fb THEN fb[i]
                                        ELSE Bm25Background(dataset_len, i)]
    /\ faiss_order = FaissOrder(dataset_len, dense_all)
    /\ argsort_result \in {ArgsortWith(dataset_len, bm25_scores_all, prio) :
                              prio \in TiePriorities(dataset_len)}
    /\ last_call = "none"
    /\ NoSearchCall
    /\ normalized = NoNormalizeCall
    /\ BuiltSearcher(dataset_len)
    /\ NoService
    /\ NoRace
    /\ NoMail

TopKs == {0 - MaxNegK, 0, 1, MaxSmallK, LargeK}

PoolSize_FromTopK(k) == Min(dataset_len, Max(candidate_limit, k * 2))

\* candidate_limit = 50 # Arbitrary N >= top_k: the size of both pools in
\* a call with top_k = k
PoolSize(k) == candidate_limit

\* HybridSearcher.search(query, top_k = k): the locals of the call and the
\* returned list
search(k) ==
    LET ck == Min(dataset_len, Max(candidate_limit, k * 2))
        rows == faiss_index_search(PoolSize(k))
        dh == DictOf(rows)
        tb == TopBm25Indices(PoolSize(k))
        sh == [i \in Range(tb) |-> bm25_scores_all[i]]
        all_indices == AllIndices(dh, sh)
        dense_vals == [p \in 1 .. Len(rows) |-> rows[p][2]]
        d_norm_fn == PoolStats(dense_vals)
        sparse_vals == [p \in 1 .. Len(tb) |-> bm25_scores_all[tb[p]]]
        s_norm_fn == PoolStats(sparse_vals)
        order == SetIterOrder(all_indices)
        app == SubSeq([p \in 1 .. Len(order) |->
                          CandidateRecord(dh, sh, d_norm_fn, s_norm_fn, order[p])],
                      1, Len(order))
        sorted == SortByCombinedScore(app)
        top_results == SlicePrefix(sorted, k)
    IN  [candidate_k |-> ck,
         dense_hits |-> dh,
         sparse_hits |-> sh,
         appended |-> app,
         combined_results |-> sorted,
         final_output |-> [p \in 1 .. Len(top_results) |->
                              Materialize(top_results[p])]]

\* one call of search on the built searcher
Search(k) ==
    /\ last_call' = "search"
    /\ top_k' = k
    /\ \E r \in {search(k)} :
          /\ candidate_k' = r.candidate_k
          /\ dense_hits' = r.dense_hits
          /\ sparse_hits' = r.sparse_hits
          /\ appended' = r.appended
          /\ combined_results' = r.combined_results
          /\ final_output' = r.final_output
    /\ normalized' = NoNormalizeCall
    /\ UNCHANGED <<dataset_len, documents, dense_all, bm25_scores_all,
                   faiss_order, argsort_result>>
    /\ UNCHANGED <<buildVars, serviceVars, raceVars, mailVars>>

\* the score arrays _normalize_scores is applied to
ScoreArray(which) ==
    CASE which = "dense" -> [p \in 1 .. dataset_len |-> dense_all[p - 1]]
      [] which = "bm25" -> [p \in 1 .. dataset_len |-> bm25_scores_all[p - 1]]
      [] which = "empty" -> <<>>

\* one call of _normalize_scores
NormalizeScores(which) ==
    /\ normalized' = [input |-> ScoreArray(which),
                      output |-> _normalize_scores(ScoreArray(which))]
    /\ last_call' = "_normalize_scores"
    /\ top_k' = 0
    /\ candidate_k' = 0
    /\ dense_hits' = <<>>
    /\ sparse_hits' = <<>>
    /\ appended' = <<>>
    /\ combined_results' = <<>>
    /\ final_output' = <<>>
    /\ UNCHANGED <<dataset_len, documents, dense_all, bm25_scores_all,
                   faiss_order, argsort_result>>
    /\ UNCHANGED <<buildVars, serviceVars, raceVars, mailVars>>

Next ==
    \/ \E k \in TopKs : Search(k)
    \/ \E which \in {"dense", "bm25", "empty"} : NormalizeScores(which)

Spec == Init /\ [][Next]_vars

(* ------------------ construction of a searcher, step by step ---------- *)

BuildInit ==
    /\ dataset_len = 0
    /\ documents = <<>>
    /\ dense_all = <<>>
    /\ bm25_scores_all = <<>>
    /\ faiss_order = <<>>
    /\ argsort_result = <<>>
    /\ last_call = "none"
    /\ NoSearchCall
    /\ normalized = NoNormalizeCall
    /\ store \in Stores
    /\ cache_file \in IF store.exists THEN CacheFiles ELSE {NoCacheFile}
    /\ cache_writable \in BOOLEAN
    /\ build_pc = "new"
    /\ build_error = "none"
    /\ faiss_ntotal = 0
    /\ bm25 = NoBm25
    /\ NoService
    /\ NoRace
    /\ NoMail

\* self.dataset = load_from_disk(dataset_path)
LoadDataset ==
    /\ build_pc = "new"
    /\ IF store.exists
       THEN /\ build_pc' = "loaded"
            /\ build_error' = "none"
            /\ dataset_len' = store.docs
            /\ documents' = [i \in 0 .. store.docs - 1 |->
                                TextLenAt(store.docs, i)]
       ELSE /\ build_pc' = "failed"
            /\ build_error' = "FileNotFoundError"
            /\ UNCHANGED <<dataset_len, documents>>
    /\ UNCHANGED <<dense_all, bm25_scores_all, faiss_order, argsort_result,
                   last_call, top_k, candidate_k, dense_hits, sparse_hits,
                   appended, combined_results, final_output, normalized>>
    /\ UNCHANGED <<store, cache_file, cache_writable, faiss_ntotal, bm25>>
    /\ UNCHANGED <<serviceVars, raceVars, mailVars>>

\* self._build_faiss_index()
BuildFaissIndex ==
    /\ build_pc = "loaded"
    /\ \E r \in {_build_faiss_index(store)} :
          /\ build_error' = r.error
          /\ build_pc' = IF r.error = "none" THEN "faiss_built" ELSE "failed"
          /\ faiss_ntotal' = r.ntotal
    /\ UNCHANGED searchVars
    /\ UNCHANGED <<store, cache_file, cache_writable, bm25>>
    /\ UNCHANGED <<serviceVars, raceVars, mailVars>>

\* self._build_bm25_index()
BuildBm25Index ==
    /\ build_pc = "faiss_built"
    /\ \E r \in {_build_bm25_index(store, cache_file, cache_writable)} :
          /\ build_error' = r.error
          /\ build_pc' = IF r.error = "none" THEN "built" ELSE "failed"
          /\ bm25' = r.bm25
          /\ cache_file' = r.cache
    /\ UNCHANGED searchVars
    /\ UNCHANGED <<store, cache_writable, faiss_ntotal>>
    /\ UNCHANGED <<serviceVars, raceVars, mailVars>>

BuildNext ==
    \/ LoadDataset
    \/ BuildFaissIndex
    \/ BuildBm25Index

BuildSpec == BuildInit /\ [][BuildNext]_vars

(* ------------------------------ service ------------------------------- *)

\* HybridSearcher(dataset_path=...): __init__ run to its end
HybridSearcher_init(st, cache, writable) ==
    IF ~st.exists
    THEN [error |-> "FileNotFoundError", ntotal |-> 0, bm25 |-> NoBm25,
          cache |-> cache]
    ELSE LET f == _build_faiss_index(st)
             b == _build_bm25_index(st, cache, writable)
         IN  IF f.error # "none"
             THEN [error |-> f.error, ntotal |-> 0, bm25 |-> NoBm25,
                   cache |-> cache]
             ELSE [error |-> b.error, ntotal |-> f.ntotal, bm25 |-> b.bm25,
                   cache |-> b.cache]

\* what the service finds at ./vectorized_dataset: nothing, a collection of
\* ServiceDocs documents, one without the embedding column, an empty one
ServiceStores ==
    {[exists |-> FALSE, docs |-> 0, columns |-> {}],
     [exists |-> TRUE, docs |-> ServiceDocs, columns |-> Columns],
     [exists |-> TRUE, docs |-> ServiceDocs, columns |-> {"document"}],
     [exists |-> TRUE, docs |-> 0, columns |-> Columns]}
ServiceScoreVals == {0, HighScore}
\* SearchRequest.top_k of the requests
ServiceTopKs == {0, MaxSmallK}

\* The score variables describe what the indexes of the collection give for
\* the query of the requests; they are empty when no index can be built.
ServiceInit ==
    /\ available \in BOOLEAN
    /\ store \in ServiceStores
    /\ cache_file = NoCacheFile
    /\ cache_writable = TRUE
    /\ build_pc = "new"
    /\ build_error = "none"
    /\ faiss_ntotal = 0
    /\ bm25 = NoBm25
    /\ IF available /\ store.columns = Columns /\ store.docs > 0
       THEN /\ dataset_len = store.docs
            /\ documents = [i \in 0 .. store.docs - 1 |->
                               TextLenAt(store.docs, i)]
            /\ dense_all \in [0 .. store.docs - 1 -> ServiceScoreVals]
            /\ bm25_scores_all \in [0 .. store.docs - 1 -> ServiceScoreVals]
            /\ faiss_order = FaissOrder(store.docs, dense_all)
            /\ argsort_result
                  = ArgsortWith(store.docs, bm25_scores_all,
                                [i \in 0 .. store.docs - 1 |-> i])
       ELSE /\ dataset_len = 0
            /\ documents = <<>>
            /\ dense_all = <<>>
            /\ bm25_scores_all = <<>>
            /\ faiss_order = <<>>
            /\ argsort_result = <<>>
    /\ last_call = "none"
    /\ NoSearchCall
    /\ normalized = NoNormalizeCall
    /\ lifespan_pc = "startup"
    /\ searcher = "None"
    /\ req = [t \in Threads |-> IdleRequest]
    /\ NoRace
    /\ NoMail

\* the variables of the searcher's indexes and of the last-call record that
\* the service steps leave alone
indexVars == <<dataset_len, documents, dense_all, bm25_scores_all,
               faiss_order, argsort_result>>
callVars == <<last_call, candidate_k, dense_hits, sparse_hits, appended,
              combined_results, final_output, normalized>>

\* lifespan, startup: HybridSearcher(dataset_path=dataset_path) is evaluated
\* if the dependencies were imported and the dataset path exists
LifespanConstruct ==
    /\ lifespan_pc = "startup"
    /\ lifespan_pc' = "constructed"
    /\ IF available /\ store.exists
       THEN \E r \in {HybridSearcher_init(store, cache_file, cache_writable)} :
               /\ build_pc' = IF r.error = "none" THEN "built" ELSE "failed"
               /\ build_error' = r.error
               /\ faiss_ntotal' = r.ntotal
               /\ bm25' = r.bm25
               /\ cache_file' = r.cache
       ELSE UNCHANGED <<build_pc, build_error, faiss_ntotal, bm25, cache_file>>
    /\ UNCHANGED <<store, cache_writable, available, searcher, req, top_k>>
    /\ UNCHANGED <<indexVars, callVars, raceVars, mailVars>>

\* lifespan, startup: the assignment searcher = ... takes place if the
\* constructor returned; an exception is caught and printed
LifespanAssign ==
    /\ lifespan_pc = "constructed"
    /\ lifespan_pc' = "serving"
    /\ searcher' = IF build_pc = "built" THEN "HybridSearcher" ELSE "None"
    /\ UNCHANGED <<available, req, top_k, buildVars, indexVars, callVars>>
    /\ UNCHANGED <<raceVars, mailVars>>

InFlight(t) == req[t].pc \notin {"idle", "responded"}

\* lifespan, shutdown, once the server has drained its requests
LifespanShutdown ==
    /\ lifespan_pc = "serving"
    /\ \A t \in Threads : ~InFlight(t)
    /\ lifespan_pc' = "shutdown"
    /\ searcher' = "None"
    /\ UNCHANGED <<available, req, top_k, buildVars, indexVars, callVars>>
    /\ UNCHANGED <<raceVars, mailVars>>

GateOpen_Always(av, s) == TRUE

\* search_legal: not (not HYBRID_SEARCH_AVAILABLE or searcher is None)
GateOpen(av, s) == av /\ s # "None"

ResponseOnError_EmptyList(e) ==
    [status |-> StatusOK, results |-> <<>>, detail |-> ""]

\* except Exception as e: raise HTTPException(status_code=500, detail=str(e))
ResponseOnError(e) ==
    [status |-> StatusServerError, results |-> <<>>, detail |-> e]

\* search_legal receives a request with top_k = k on thread t
Gate(t, k) ==
    /\ lifespan_pc = "serving"
    /\ ~InFlight(t)
    /\ req' = [req EXCEPT ![t] =
                 IF GateOpen(available, searcher)
                 THEN [IdleRequest EXCEPT !.pc = "gated", !.k = k]
                 ELSE [IdleRequest EXCEPT
                         !.pc = "responded",
                         !.response = [status |-> StatusUnavailable,
                                       results |-> <<>>,
                                       detail |-> "Hybrid search not available"]]]
    /\ UNCHANGED <<available, lifespan_pc, searcher, top_k>>
    /\ UNCHANGED <<buildVars, indexVars, callVars, raceVars, mailVars>>

SearchOutcomeOnFault_Fallback(f, k) ==
    [raised |-> "none", results |-> search(k).final_output]

\* search has no try/except: an exception of the encoder or of an index
\* leaves search as it is, and no list is returned
SearchOutcomeOnFault(f, k) == [raised |-> f, results |-> <<>>]

\* one statement group of search on thread t, leading from pc from to pc to;
\* f is "none" or the exception the library call raises
SearchStep(t, from, to, f) ==
    /\ req[t].pc = from
    /\ req' = [req EXCEPT ![t] =
                 IF f = "none"
                 THEN [req[t] EXCEPT !.pc = to, !.called = TRUE]
                 ELSE LET o == SearchOutcomeOnFault(f, req[t].k)
                      IN  [req[t] EXCEPT !.pc = "searched", !.called = TRUE,
                                         !.fault = f,
                                         !.raised = o.raised,
                                         !.results = o.results]]
    /\ UNCHANGED <<available, lifespan_pc, searcher>>
    /\ UNCHANGED <<buildVars, indexVars, callVars, raceVars, mailVars>>

\* searcher.search(request.query, top_k=request.top_k) is entered and
\* self.model.encode([query]) runs
Encode(t) ==
    /\ \E f \in {"none", "encode"} : SearchStep(t, "gated", "encoded", f)
    /\ top_k' = req[t].k

\* candidate_k and the first self.faiss_index.search
DenseSearch(t) ==
    /\ \E f \in {"none", "faiss"} : SearchStep(t, "encoded", "dense", f)
    /\ UNCHANGED top_k

\* self.bm25.get_scores(tokenized_query)
Bm25Scores(t) ==
    /\ \E f \in {"none", "bm25"} : SearchStep(t, "dense", "scored", f)
    /\ UNCHANGED top_k

CallTopK_LastCall(t) == top_k

\* the parameter top_k of the call running on thread t
CallTopK(t) == req[t].k

\* the second faiss search, the fusion, the sort, the slice and the
\* materialization; search returns final_output
Fuse(t) ==
    /\ req[t].pc = "scored"
    /\ \E f \in {"none", "faiss"} :
          req' = [req EXCEPT ![t] =
                    IF f = "none"
                    THEN [req[t] EXCEPT
                            !.pc = "searched",
                            !.results = search(CallTopK(t)).final_output]
                    ELSE LET o == SearchOutcomeOnFault(f, req[t].k)
                         IN  [req[t] EXCEPT !.pc = "searched", !.fault = f,
                                            !.raised = o.raised,
                                            !.results = o.results]]
    /\ UNCHANGED <<available, lifespan_pc, searcher, top_k>>
    /\ UNCHANGED <<buildVars, indexVars, callVars, raceVars, mailVars>>

\* extract_lawyers_from_search_results calls the extraction service for the
\* first 5 results that have a non-blank text
ExtractionRuns(results) ==
    \E p \in 1 .. Min(Len(results), 5) : results[p].document > 0

\* search_legal after the call of search: the results are post-processed
\* and returned, or the exception is turned into an HTTP error
Respond(t) ==
    /\ req[t].pc = "searched"
    /\ \E xf \in {"none"} \cup (IF req[t].raised = "none"
                                   /\ ExtractionRuns(req[t].results)
                                THEN {"extraction"} ELSE {}) :
          req' = [req EXCEPT ![t] =
                    [req[t] EXCEPT
                       !.pc = "responded",
                       !.response =
                          IF req[t].raised # "none"
                          THEN ResponseOnError(req[t].raised)
                          ELSE IF xf # "none"
                          THEN ResponseOnError(xf)
                          ELSE [status |-> StatusOK,
                                results |-> req[t].results,
                                detail |-> ""]]]
    /\ UNCHANGED <<available, lifespan_pc, searcher, top_k>>
    /\ UNCHANGED <<buildVars, indexVars, callVars, raceVars, mailVars>>

ServiceNext ==
    \/ LifespanConstruct
    \/ LifespanAssign
    \/ LifespanShutdown
    \/ \E t \in Threads, k \in ServiceTopKs : Gate(t, k)
    \/ \E t \in Threads : Encode(t)
    \/ \E t \in Threads : DenseSearch(t)
    \/ \E t \in Threads : Bm25Scores(t)
    \/ \E t \in Threads : Fuse(t)
    \/ \E t \in Threads : Respond(t)

ServiceSpec == ServiceInit /\ [][ServiceNext]_vars

(* ----------------------------- cache race ----------------------------- *)

\* Several processes run HybridSearcher.__init__ over the same collection;
\* each is followed through _build_bm25_index, the only part of the
\* construction that reads or writes a shared file.

\* the chunks read so far are the beginning of a pickle that has not ended
IsPicklePrefix(stream) ==
    /\ Len(stream) < PickleChunks
    /\ \A i \in 1 .. Len(stream) :
          stream[i].of > 0 /\ Bytes(stream[i]) = <<stream[1].of, i>>

pickle_load_Truncated(stream) ==
    IF /\ Len(stream) = PickleChunks
       /\ \A i \in 1 .. Len(stream) :
             stream[i].of > 0 /\ Bytes(stream[i]) = <<stream[1].of, i>>
    THEN [ok |-> TRUE,
          obj |-> [kind |-> "index", docs |-> stream[1].of, source |-> "cache"]]
    ELSE [ok |-> TRUE, obj |-> [kind |-> "torn", docs |-> 0, source |-> "cache"]]

\* pickle.load(f) on the chunks the file gave: the object of a complete
\* pickle; a stream that ends early or holds other bytes raises
\* (EOFError, UnpicklingError), which the except branch catches.
pickle_load(stream) ==
    IF /\ Len(stream) = PickleChunks
       /\ \A i \in 1 .. Len(stream) :
             stream[i].of > 0 /\ Bytes(stream[i]) = <<stream[1].of, i>>
    THEN [ok |-> TRUE,
          obj |-> [kind |-> "index", docs |-> stream[1].of, source |-> "cache"]]
    ELSE [ok |-> FALSE, obj |-> NoBm25]

RaceInit ==
    /\ dataset_len = 0
    /\ documents = <<>>
    /\ dense_all = <<>>
    /\ bm25_scores_all = <<>>
    /\ faiss_order = <<>>
    /\ argsort_result = <<>>
    /\ last_call = "none"
    /\ NoSearchCall
    /\ normalized = NoNormalizeCall
    /\ store = [exists |-> TRUE, docs |-> ServiceDocs, columns |-> Columns]
    /\ cache_file = NoCacheFile
    /\ cache_writable = TRUE
    /\ build_pc = "new"
    /\ build_error = "none"
    /\ faiss_ntotal = 0
    /\ bm25 = NoBm25
    /\ NoService
    \* the cache file is absent, or holds bytes that are no pickle
    /\ cache_bytes \in {NoCacheBytes, [exists |-> TRUE, data |-> <<Hole>>]}
    /\ proc = [p \in Procs |-> NewProc]
    /\ NoMail

\* if os.path.exists(cache_path): ... open(cache_path, "rb")
CacheExists(p) ==
    /\ proc[p].pc = "start"
    /\ proc' = [proc EXCEPT ![p].pc = IF cache_bytes.exists THEN "load"
                                      ELSE "build"]
    /\ UNCHANGED cache_bytes
    /\ UNCHANGED <<searchVars, buildVars, serviceVars, mailVars>>

\* self.bm25 = pickle.load(f): one read of the file by the unpickler.  The
\* load ends when the pickle is complete, when the bytes read are no pickle
\* data, or at the end of the file; a failed load goes on to the rebuild.
PickleLoadRead(p) ==
    /\ proc[p].pc = "load"
    /\ LET o == proc[p].offset
           atEnd == o >= Len(cache_bytes.data)
           st == IF atEnd THEN proc[p].stream
                 ELSE Append(proc[p].stream, cache_bytes.data[o + 1])
       IN  IF ~atEnd /\ IsPicklePrefix(st)
           THEN proc' = [proc EXCEPT ![p].offset = o + 1, ![p].stream = st]
           ELSE \E r \in {pickle_load(st)} :
                   proc' = [proc EXCEPT
                               ![p].offset = Len(st),
                               ![p].stream = st,
                               ![p].bm25 = r.obj,
                               ![p].fellback = ~r.ok,
                               ![p].pc = IF r.ok THEN "done" ELSE "build"]
    /\ UNCHANGED cache_bytes
    /\ UNCHANGED <<searchVars, buildVars, serviceVars, mailVars>>

\* self.bm25 = BM25Okapi(self.tokenized_docs)
RebuildIndex(p) ==
    /\ proc[p].pc = "build"
    /\ "document" \in store.columns
    /\ proc' = [proc EXCEPT ![p].bm25 = BM25Okapi(store.docs),
                            ![p].pc = "open_wb"]
    /\ UNCHANGED cache_bytes
    /\ UNCHANGED <<searchVars, buildVars, serviceVars, mailVars>>

\* open(cache_path, "wb"): creates the file or truncates it to length 0
OpenCacheForWrite(p) ==
    /\ proc[p].pc = "open_wb"
    /\ cache_bytes' = [exists |-> TRUE, data |-> <<>>]
    /\ proc' = [proc EXCEPT ![p].offset = 0, ![p].pc = "dump"]
    /\ UNCHANGED <<searchVars, buildVars, serviceVars, mailVars>>

\* pickle.dump(self.bm25, f): one write at the offset of this process's own
\* file object; a write beyond the end of the file leaves a hole before it.
\* The file is closed after the last write.
PickleDumpWrite(p) ==
    /\ proc[p].pc = "dump"
    /\ LET pos == proc[p].offset + 1
           c == Chunk(proc[p].bm25.docs, pos, p)
           old == cache_bytes.data
           new == IF pos <= Len(old)
                  THEN [old EXCEPT ![pos] = c]
                  ELSE old \o [i \in 1 .. (pos - 1 - Len(old)) |-> Hole]
                           \o <<c>>
       IN  /\ cache_bytes' = [cache_bytes EXCEPT !.data = new]
           /\ proc' = [proc EXCEPT ![p].offset = pos,
                                   ![p].pc = IF pos = PickleChunks THEN "done"
                                             ELSE "dump"]
    /\ UNCHANGED <<searchVars, buildVars, serviceVars, mailVars>>

RaceNext ==
    \/ \E p \in Procs : CacheExists(p)
    \/ \E p \in Procs : PickleLoadRead(p)
    \/ \E p \in Procs : RebuildIndex(p)
    \/ \E p \in Procs : OpenCacheForWrite(p)
    \/ \E p \in Procs : PickleDumpWrite(p)

RaceSpec == RaceInit /\ [][RaceNext]_vars

(* --------------------------- email service ---------------------------- *)

SENDER_EMAIL == "me"
\* A subject is its text without a leading "Re:" (base) and whether it
\* starts with "Re:".
Subject(base, re) == [base |-> base, re |-> re]
\* subject.lower().strip().replace('re:', '').replace('fwd:', '').strip()
NormalizedSubject(subj) == subj.base
\* f"{participants_str}:{subject}" with participants the sorted non-empty
\* addresses of sender and recipient
ThreadKey(e) ==
    [participants |-> {e.from, e.to} \ {""},
     subject |-> NormalizedSubject(e.subject)]

\* the emails that arrive in the inbox: two emails of one lawyer on the same
\* subject, and a notification of a system address
IncomingEmails ==
    {[uid |-> "1", message_id |-> "m1", in_reply_to |-> "", references |-> "",
      from |-> "lawyer", to |-> SENDER_EMAIL,
      subject |-> Subject("case", FALSE), body |-> "b1"],
     [uid |-> "2", message_id |-> "m2", in_reply_to |-> "", references |-> "",
      from |-> "lawyer", to |-> SENDER_EMAIL,
      subject |-> Subject("case", TRUE), body |-> "b2"],
     [uid |-> "3", message_id |-> "m3", in_reply_to |-> "", references |-> "",
      from |-> "no-reply@", to |-> SENDER_EMAIL,
      subject |-> Subject("news", FALSE), body |-> "b3"]}
Uids == {e.uid : e \in IncomingEmails}
EmailOf(uid) == CHOOSE e \in IncomingEmails : e.uid = uid
\* the thread ids the incoming emails can have
ThreadIds == {ThreadKey(e) : e \in IncomingEmails}
\* the text the agent generates for an email, if it generates one
AgentReply(e) == IF e.body = "b1" THEN "r1" ELSE "r2"

\* reply_email_data of send_reply: the reply to original with text reply_text
ReplyEmailData(original, reply_text) ==
    [uid |-> "", message_id |-> "",
     in_reply_to |-> original.message_id,
     references |-> original.message_id,
     from |-> SENDER_EMAIL, to |-> original.from,
     subject |-> Subject(original.subject.base, TRUE),
     body |-> reply_text]

\* EmailMessage.message_id.like(f"%{pattern}%"): no message id used here is
\* part of another one, so the pattern matches the equal id only
SqlLike(value, pattern) == value = pattern

\* ConversationManagerDB._get_thread_id
_get_thread_id(msgs, e) ==
    LET message_id_to_find == IF e.in_reply_to # "" THEN e.in_reply_to
                              ELSE e.references
        exact == {i \in 1 .. Len(msgs) :
                     msgs[i].message_id = message_id_to_find}
        like == {i \in 1 .. Len(msgs) :
                    SqlLike(msgs[i].message_id, message_id_to_find)}
    IN  IF message_id_to_find # "" /\ exact # {}
        THEN msgs[SetMin(exact)].thread_id
        ELSE IF message_id_to_find # "" /\ like # {}
        THEN msgs[SetMin(like)].thread_id
        ELSE ThreadKey(e)

\* the row EmailMessage(...) of add_email
EmailMessage(e, thread_id, t) ==
    [thread_id |-> thread_id, from_email |-> e.from, to_email |-> e.to,
     subject |-> e.subject, body |-> e.body, uid |-> e.uid,
     message_id |-> e.message_id, in_reply_to |-> e.in_reply_to,
     references |-> e.references, timestamp |-> t]

\* the row EmailThread(...) of add_email
EmailThread == [manual_mode |-> FALSE]

\* the duplicate check of add_email: the rows that make the email a duplicate
ExistingEmail(msgs, e, thread_id, t) ==
    LET inThread == {i \in 1 .. Len(msgs) : msgs[i].thread_id = thread_id}
        similar == {i \in inThread :
                       /\ msgs[i].from_email = e.from
                       /\ msgs[i].to_email = e.to
                       /\ msgs[i].subject = e.subject}
        same == {i \in similar : msgs[i].body = e.body}
    IN  IF e.uid # ""
        THEN {i \in inThread : msgs[i].uid = e.uid}
        ELSE IF e.message_id # ""
        THEN {i \in inThread : msgs[i].message_id = e.message_id}
        ELSE IF same # {}
        THEN same
        ELSE {i \in similar : msgs[i].timestamp >= t - RecentMinutes}

\* ConversationManagerDB.add_email at time t: the thread id returned and the
\* tables afterwards.  A duplicate returns before the commit.
add_email(msgs, thrs, e, t) ==
    LET thread_id == _get_thread_id(msgs, e)
    IN  IF ExistingEmail(msgs, e, thread_id, t) # {}
        THEN [thread_id |-> thread_id, messages |-> msgs, threads |-> thrs]
        ELSE [thread_id |-> thread_id,
              messages |-> Append(msgs, EmailMessage(e, thread_id, t)),
              threads |-> IF thread_id \in DOMAIN thrs THEN thrs
                          ELSE thrs @@ (thread_id :> EmailThread)]

\* EmailFilter.should_process: system senders are skipped
SystemSenders == {"no-reply@"}
should_process(e) == e.from \notin SystemSenders

\* the order in which mail.search lists the emails of the inbox
InboxOrder == <<"1", "2", "3">>

\* fetch_new_emails: the UNSEEN emails whose uid is not recorded as
\* processed, in the order of the inbox
\* load_processed_emails: the set of the recorded uids
load_processed_emails(done) == Range(done)

\* save_processed_email(uid): the uid is added unless it is recorded; then
\* all but the newest ProcessedKept entries are deleted
save_processed_email(done, uid) ==
    LET all_processed == IF uid \in Range(done) THEN done
                         ELSE Append(done, uid)
    IN  IF Len(all_processed) > ProcessedKept
        THEN SubSeq(all_processed, Len(all_processed) - ProcessedKept + 1,
                    Len(all_processed))
        ELSE all_processed

fetch_new_emails(box, done) ==
    LET Wanted(u) == box[u] = "unseen" /\ u \notin load_processed_emails(done)
    IN  SelectSeq(InboxOrder, Wanted)

MailInit ==
    /\ dataset_len = 0
    /\ documents = <<>>
    /\ dense_all = <<>>
    /\ bm25_scores_all = <<>>
    /\ faiss_order = <<>>
    /\ argsort_result = <<>>
    /\ last_call = "none"
    /\ NoSearchCall
    /\ normalized = NoNormalizeCall
    /\ store = [exists |-> FALSE, docs |-> 0, columns |-> {}]
    /\ cache_file = NoCacheFile
    /\ cache_writable = TRUE
    /\ build_pc = "new"
    /\ build_error = "none"
    /\ faiss_ntotal = 0
    /\ bm25 = NoBm25
    /\ NoService
    /\ NoRace
    /\ now = 0
    /\ threads = <<>>
    /\ messages = <<>>
    /\ inbox = [u \in Uids |-> "absent"]
    /\ processed = <<>>
    /\ outbox = <<>>
    /\ \E auto \in BOOLEAN :
          listener = [IdleListener EXCEPT !.auto_reply = auto]
    /\ added = <<>>

\* An email arrives in the inbox, unread.  The listener's passes are
\* followed within one minute of its clock.
Deliver(u) ==
    /\ inbox[u] = "absent"
    /\ inbox' = [inbox EXCEPT ![u] = "unseen"]
    /\ UNCHANGED <<now, threads, messages, processed, outbox, listener, added>>
    /\ UNCHANGED <<searchVars, buildVars, serviceVars, raceVars>>

\* the user marks a read email as unread in the mail client
MarkUnread(u) ==
    /\ inbox[u] = "seen"
    /\ inbox' = [inbox EXCEPT ![u] = "unseen"]
    /\ UNCHANGED <<now, threads, messages, processed, outbox, listener, added>>
    /\ UNCHANGED <<searchVars, buildVars, serviceVars, raceVars>>

\* a minute passes
Tick ==
    /\ now < MaxTime
    /\ now' = now + 1
    /\ UNCHANGED <<threads, messages, inbox, processed, outbox, listener,
                   added>>
    /\ UNCHANGED <<searchVars, buildVars, serviceVars, raceVars>>

\* ConversationManagerDB.set_manual_mode(thread_id, manual_mode)
set_manual_mode(thread_id, manual_mode) ==
    /\ thread_id \in DOMAIN threads
    /\ threads[thread_id].manual_mode # manual_mode
    /\ threads' = [threads EXCEPT ![thread_id].manual_mode = manual_mode]
    /\ UNCHANGED <<now, messages, inbox, processed, outbox, listener, added>>
    /\ UNCHANGED <<searchVars, buildVars, serviceVars, raceVars>>

\* process_emails up to the loop: emails = fetch_new_emails(); the fetch of
\* an email's RFC822 body marks it as read.  Without new emails
\* process_emails returns.
FetchNewEmails ==
    /\ listener.pc = "idle"
    /\ LET emails == fetch_new_emails(inbox, processed)
       IN  /\ emails # <<>>
           /\ inbox' = [u \in Uids |->
                           IF \E p \in 1 .. Len(emails) : emails[p] = u
                           THEN "seen" ELSE inbox[u]]
           /\ listener' = [listener EXCEPT !.pc = "loop", !.emails = emails,
                                           !.i = 1]
    /\ UNCHANGED <<now, threads, messages, processed, outbox, added>>
    /\ UNCHANGED <<searchVars, buildVars, serviceVars, raceVars>>

\* One pass of the loop of process_emails, for the email emails[i]: the
\* email is saved to the conversation history, checked by the filter, a
\* reply is generated (generated = FALSE: generate_reply returned nothing)
\* and, with auto_reply, sent (sent_ok: send_email_tool reported success)
\* and saved to the history; the uid is recorded by save_processed_email.
\* generate_reply runs EmailAgent.invoke, whose model is bound to
\* send_email_tool: tool_call says that the model answered with a call of
\* the tool, which invoke executes before it returns the final text.
ProcessEmail(generated, sent_ok, tool_call) ==
    /\ listener.pc = "loop"
    /\ tool_call => Len(outbox) + 2 <= MaxOutbox
    /\ LET email_data == EmailOf(listener.emails[listener.i])
           saved == add_email(messages, threads, email_data, now)
           thread_id == _get_thread_id(saved.messages, email_data)
           skipped == ~should_process(email_data)
           tooled == ~skipped /\ tool_call
           reply == IF generated THEN AgentReply(email_data) ELSE "none"
           replied == ~skipped /\ reply # "none"
           sent == replied /\ listener.auto_reply /\ sent_ok
           history == IF sent
                      THEN add_email(saved.messages, saved.threads,
                                     ReplyEmailData(email_data, reply), now)
                      ELSE saved
           record == skipped \/ sent \/ (replied /\ ~listener.auto_reply)
           more == listener.i < Len(listener.emails)
           by_agent == IF tooled
                       THEN <<[uid |-> email_data.uid,
                               thread_id |-> thread_id,
                               to |-> email_data.from,
                               body |-> "tool"]>>
                       ELSE <<>>
           by_send_reply == IF sent
                            THEN <<[uid |-> email_data.uid,
                                    thread_id |-> thread_id,
                                    to |-> email_data.from,
                                    body |-> reply]>>
                            ELSE <<>>
       IN  /\ messages' = history.messages
           /\ threads' = history.threads
           /\ outbox' = outbox \o by_agent \o by_send_reply
           /\ processed' = IF record
                           THEN save_processed_email(processed,
                                                     email_data.uid)
                           ELSE processed
           /\ listener' = [listener EXCEPT
                              !.pc = IF more THEN "loop" ELSE "idle",
                              !.i = IF more THEN listener.i + 1 ELSE 0,
                              !.emails = IF more THEN listener.emails ELSE <<>>,
                              !.last = [uid |-> email_data.uid,
                                        skipped |-> skipped,
                                        replied |-> replied,
                                        sent |-> sent]]
    /\ UNCHANGED <<now, inbox, added>>
    /\ UNCHANGED <<searchVars, buildVars, serviceVars, raceVars>>

MailNext ==
    \/ \E u \in Uids : Deliver(u)
    \/ \E u \in Uids : MarkUnread(u)
    \/ \E t \in ThreadIds, m \in BOOLEAN : set_manual_mode(t, m)
    \/ FetchNewEmails
    \/ \E generated \in BOOLEAN, sent_ok \in BOOLEAN, tool_call \in BOOLEAN :
          ProcessEmail(generated, sent_ok, tool_call)

MailSpec == MailInit /\ [][MailNext]_vars

\* The emails handed to add_email directly: the two emails of the lawyer, an
\* email without uid that carries a message id, and the replies sent to the
\* lawyer's emails, which have neither.
AddedEmails ==
    {EmailOf("1"), EmailOf("2"),
     [uid |-> "", message_id |-> "m4", in_reply_to |-> "m1",
      references |-> "m1", from |-> "lawyer", to |-> SENDER_EMAIL,
      subject |-> Subject("case", TRUE), body |-> "b4"],
     ReplyEmailData(EmailOf("1"), AgentReply(EmailOf("1"))),
     ReplyEmailData(EmailOf("2"), AgentReply(EmailOf("2")))}

AddInit ==
    /\ MailInit
    /\ listener.auto_reply

\* conversation_manager.add_email(email_data), called directly
AddEmail(e) ==
    /\ Len(added) < MaxAdds
    /\ \E r \in {add_email(messages, threads, e, now)} :
          /\ messages' = r.messages
          /\ threads' = r.threads
          /\ added' = Append(added, [email |-> e, thread_id |-> r.thread_id,
                                     stored |-> r.messages # messages])
    /\ UNCHANGED <<now, inbox, processed, outbox, listener>>
    /\ UNCHANGED <<searchVars, buildVars, serviceVars, raceVars>>

AddNext ==
    \/ \E e \in AddedEmails : AddEmail(e)
    \/ Tick

AddSpec == AddInit /\ [][AddNext]_vars

(* ------------------------------ claims -------------------------------- *)

IsSearch == last_call = "search"
PoolKeys == DOMAIN dense_hits \cup DOMAIN sparse_hits
\* the place of the candidate idx in the list before the sort
AppendIndex(idx) == CHOOSE p \in 1 .. Len(appended) : appended[p].idx = idx
SeqSet(s) == {s[p] : p \in 1 .. Len(s)}

\* C1: after every call of search the candidate list is sorted by
\* combined_score in non-increasing order, two candidates with equal
\* combined_score keep the relative order in which they were appended, the
\* sorted list holds exactly the appended candidates, and the returned list
\* is a prefix of the sorted list: its first top_k entries for top_k >= 0.
C1_SortedStableTopK ==
    IsSearch =>
        /\ Len(combined_results) = Len(appended)
        /\ SeqSet(combined_results) = SeqSet(appended)
        /\ \A i, j \in 1 .. Len(combined_results) :
              i < j =>
                 /\ RatLeq(combined_results[j].combined_score,
                           combined_results[i].combined_score)
                 /\ combined_results[i].combined_score
                       = combined_results[j].combined_score
                    => AppendIndex(combined_results[i].idx)
                          < AppendIndex(combined_results[j].idx)
        /\ Len(final_output) <= Len(combined_results)
        /\ \A p \in 1 .. Len(final_output) :
              final_output[p] = Materialize(combined_results[p])
        /\ top_k >= 0 =>
              Len(final_output) = Min(top_k, Len(combined_results))

\* C1 witness: a call returned two candidates with equal combined_score and
\* cut the sorted list off before its end.
C1_Witness ==
    /\ IsSearch
    /\ Len(final_output) >= 2
    /\ Len(final_output) < Len(combined_results)
    /\ \E p \in 1 .. Len(final_output) - 1 :
          final_output[p].combined_score = final_output[p + 1].combined_score

\* C2: the ranked candidates are exactly the union of the keys of the dense
\* pool and of the sparse pool, one record per key, and every returned result
\* is a document whose position is in the dense pool, the sparse pool or both.
C2_UnionOfPools ==
    IsSearch =>
        /\ {combined_results[p].idx : p \in 1 .. Len(combined_results)} = PoolKeys
        /\ Len(combined_results) = Cardinality(PoolKeys)
        /\ \A p \in 1 .. Len(final_output) : final_output[p].doc \in PoolKeys

\* C2 witness: a call returned a document that is in the sparse pool only
\* and a document that is in the dense pool only.
C2_Witness ==
    /\ IsSearch
    /\ \E p \in 1 .. Len(final_output) :
          final_output[p].doc \in DOMAIN sparse_hits \ DOMAIN dense_hits
    /\ \E p \in 1 .. Len(final_output) :
          final_output[p].doc \in DOMAIN dense_hits \ DOMAIN sparse_hits

\* min-max normalization of the score of key idx over the values of one pool
\* with minimum lo and maximum hi, 0 for a key that is not in the pool
MinMaxOf(hits, lo, hi, idx) ==
    IF idx \notin DOMAIN hits THEN <<0, 1>>
    ELSE IF hi = lo THEN <<0, 1>>
    ELSE Rat(F32Sub(hits[idx], lo), F32Sub(hi, lo))

\* C3: every key of the union has a candidate record, and the record's
\* combined_score is 0.7 x dense component + 0.3 x sparse component, the
\* component of a pool being the min-max-normalized score of the candidate
\* in that pool, or 0 if the candidate is not in the pool.
C3_CombinedScoreFormula ==
    IsSearch =>
        /\ \A idx \in PoolKeys :
              \E p \in 1 .. Len(combined_results) : combined_results[p].idx = idx
        /\ LET dlo == SetMin(Range(dense_hits))
               dhi == SetMax(Range(dense_hits))
               slo == SetMin(Range(sparse_hits))
               shi == SetMax(Range(sparse_hits))
           IN  \A p \in 1 .. Len(combined_results) :
                  LET r == combined_results[p]
                      dc == MinMaxOf(dense_hits, dlo, dhi, r.idx)
                      sc == MinMaxOf(sparse_hits, slo, shi, r.idx)
                  IN  r.combined_score
                         = Rat(7 * dc[1] * sc[2] + 3 * sc[1] * dc[2],
                               10 * dc[2] * sc[2])

\* C3 witness: a candidate of the sparse pool only with a positive sparse
\* component, and a candidate of both pools with both components positive
\* and below 1.
C3_Witness ==
    /\ IsSearch
    /\ \E p \in 1 .. Len(combined_results) :
          /\ combined_results[p].idx \notin DOMAIN dense_hits
          /\ combined_results[p].s_norm # <<0, 1>>
    /\ \E p \in 1 .. Len(combined_results) :
          /\ combined_results[p].d_norm \notin {<<0, 1>>, <<1, 1>>}
          /\ combined_results[p].s_norm \notin {<<0, 1>>, <<1, 1>>}

\* the normalized values of a pool lie in [0, 1], the maximum is mapped to 1
\* and the minimum to 0
NormalizedWithinBounds(hits, field) ==
    Cardinality(Range(hits)) >= 2 =>
        LET hi == SetMax(Range(hits))
            lo == SetMin(Range(hits))
        IN  \A p \in 1 .. Len(combined_results) :
                LET r == combined_results[p]
                IN  r.idx \in DOMAIN hits =>
                       /\ RatLeq(<<0, 1>>, r[field])
                       /\ RatLeq(r[field], <<1, 1>>)
                       /\ hits[r.idx] = hi => r[field] = <<1, 1>>
                       /\ hits[r.idx] = lo => r[field] = <<0, 1>>

\* C4: for the dense pool and for the sparse pool, when the pool holds at
\* least 2 distinct raw scores, every member's normalized score lies in
\* [0, 1], the members with the pool's maximum raw score get 1 and the
\* members with the pool's minimum raw score get 0; _normalize_scores does the
\* same for an array with at least 2 distinct scores.
C4_NormalizationBounds ==
    /\ IsSearch =>
          /\ NormalizedWithinBounds(dense_hits, "d_norm")
          /\ NormalizedWithinBounds(sparse_hits, "s_norm")
    /\ last_call = "_normalize_scores" =>
          LET in == normalized.input
              out == normalized.output
          IN  Cardinality(SeqSet(in)) >= 2 =>
                 /\ Len(out) = Len(in)
                 /\ \A p \in 1 .. Len(in) :
                       /\ RatLeq(<<0, 1>>, out[p])
                       /\ RatLeq(out[p], <<1, 1>>)
                       /\ in[p] = SetMax(SeqSet(in)) => out[p] = <<1, 1>>
                       /\ in[p] = SetMin(SeqSet(in)) => out[p] = <<0, 1>>

\* C4 witness: both pools leave out the document with the lowest score of
\* the corpus and hold members with normalized scores 0, 1 and in between.
C4_Witness ==
    /\ IsSearch
    /\ MissingLabel \notin DOMAIN dense_hits
    /\ \E i \in Positions \ DOMAIN dense_hits :
          dense_all[i] < SetMin(Range(dense_hits))
    /\ \E i \in Positions \ DOMAIN sparse_hits :
          bm25_scores_all[i] < SetMin(Range(sparse_hits))
    /\ \A v \in {<<0, 1>>, <<1, 1>>} :
          /\ \E p \in 1 .. Len(combined_results) : combined_results[p].d_norm = v
          /\ \E p \in 1 .. Len(combined_results) : combined_results[p].s_norm = v
    /\ \E p \in 1 .. Len(combined_results) :
          /\ combined_results[p].d_norm \notin {<<0, 1>>, <<1, 1>>}
          /\ combined_results[p].s_norm \notin {<<0, 1>>, <<1, 1>>}

\* C5: when all raw scores of a pool are equal (also when the pool has one
\* member), every member's normalized score is 0 and the pool adds nothing
\* to any candidate's combined_score, which is then the weighted component
\* of the other pool alone; _normalize_scores maps an array of equal scores
\* to zeros.
C5_EqualScoresGiveZero ==
    /\ IsSearch =>
          /\ Cardinality(Range(dense_hits)) = 1 =>
                \A p \in 1 .. Len(combined_results) :
                    LET r == combined_results[p]
                    IN  /\ r.d_norm = <<0, 1>>
                        /\ r.combined_score = Rat(3 * r.s_norm[1], 10 * r.s_norm[2])
          /\ Cardinality(Range(sparse_hits)) = 1 =>
                \A p \in 1 .. Len(combined_results) :
                    LET r == combined_results[p]
                    IN  /\ r.s_norm = <<0, 1>>
                        /\ r.combined_score = Rat(7 * r.d_norm[1], 10 * r.d_norm[2])
    /\ last_call = "_normalize_scores" =>
          (Cardinality(SeqSet(normalized.input)) = 1 =>
              /\ Len(normalized.output) = Len(normalized.input)
              /\ \A p \in 1 .. Len(normalized.output) :
                    normalized.output[p] = <<0, 1>>)

\* C5 witness: a call in which all members of the dense pool have one raw
\* score while the sparse pool has several, and some candidate has a
\* positive combined_score.
C5_Witness ==
    /\ IsSearch
    /\ Cardinality(Range(dense_hits)) = 1
    /\ Cardinality(Range(sparse_hits)) >= 2
    /\ \E p \in 1 .. Len(combined_results) :
          combined_results[p].combined_score # <<0, 1>>

\* C6: in every call both pools are retrieved with pool size
\* N = max(50, 2 x top_k): each pool holds the min(N, corpus size) best
\* positions of its modality.
C6_PoolSizeFollowsTopK ==
    IsSearch =>
        LET N == Max(candidate_limit, 2 * top_k)
        IN  /\ Cardinality(DOMAIN dense_hits \ {MissingLabel})
                  = Min(N, dataset_len)
            /\ Cardinality(DOMAIN sparse_hits) = Min(N, dataset_len)

\* C7: for a positive top_k the number of returned results is
\* min(top_k, size of the union of the two pools).
C7_ResultLength ==
    (IsSearch /\ top_k > 0) =>
        Len(final_output) = Min(top_k, Cardinality(PoolKeys))

\* C7 witness: a call with a positive top_k below the size of a union that
\* is larger than either pool returned top_k results.
C7_Witness ==
    /\ IsSearch
    /\ top_k > 0
    /\ top_k < Cardinality(PoolKeys)
    /\ Cardinality(PoolKeys) > Cardinality(DOMAIN dense_hits)
    /\ Cardinality(PoolKeys) > Cardinality(DOMAIN sparse_hits)
    /\ Len(final_output) = top_k

\* C8: for every top_k <= 0 search returns an empty list.
C8_NonPositiveTopKEmpty ==
    (IsSearch /\ top_k <= 0) => final_output = <<>>

\* C10: when search is called with top_k = k1 and next with top_k = k2, where
\* 0 < k1 < k2 <= size of the union, the candidate list with its scores is
\* the same in both calls and the first k1 results of the second call are
\* the results of the first call.
C10_MonotonicK ==
    [][(/\ IsSearch /\ IsSearch'
        /\ 0 < top_k /\ top_k < top_k'
        /\ top_k' <= Cardinality(DOMAIN dense_hits' \cup DOMAIN sparse_hits'))
       => /\ combined_results' = combined_results
          /\ Len(final_output') >= top_k
          /\ SubSeq(final_output', 1, top_k) = final_output]_vars

\* C10 witness: a call with top_k >= 2 within the size of the union, the
\* pools leaving out a document of the corpus, returned top_k results with
\* pairwise different combined scores.
C10_Witness ==
    /\ IsSearch
    /\ top_k >= 2
    /\ top_k <= Cardinality(PoolKeys)
    /\ Positions \ PoolKeys # {}
    /\ Len(final_output) = top_k
    /\ \A p, q \in 1 .. Len(final_output) :
          p # q => final_output[p].combined_score # final_output[q].combined_score

AllBm25Zero == \A i \in Positions : bm25_scores_all[i] = 0

\* C11: when the BM25 score of every document is 0 and the dense pool is not
\* empty, a call with a positive top_k returns results, every returned
\* candidate's combined_score is 0.7 x its normalized dense score (0 for a
\* candidate outside the dense pool), and the results are in descending
\* order of the normalized dense score.
C11_DenseOnlyRanking ==
    (IsSearch /\ AllBm25Zero /\ top_k > 0 /\ DOMAIN dense_hits # {}) =>
        /\ final_output # <<>>
        /\ LET lo == SetMin(Range(dense_hits))
               hi == SetMax(Range(dense_hits))
               dn(p) == MinMaxOf(dense_hits, lo, hi, combined_results[p].idx)
           IN  \A p \in 1 .. Len(final_output) :
                  /\ final_output[p].combined_score
                        = Rat(DenseWeight * dn(p)[1], WeightScale * dn(p)[2])
                  /\ \A q \in (p + 1) .. Len(final_output) :
                        RatLeq(dn(q), dn(p))

\* C11 witness: on a corpus larger than the pools, with BM25 score 0
\* everywhere, a call returned results with different combined scores and
\* the candidate list holds a document that is not in the dense pool.
C11_Witness ==
    /\ IsSearch
    /\ AllBm25Zero
    /\ dataset_len > candidate_limit
    /\ top_k >= 2
    /\ Len(final_output) = top_k
    /\ final_output[1].combined_score # final_output[2].combined_score
    /\ \E p \in 1 .. Len(combined_results) :
          combined_results[p].idx \notin DOMAIN dense_hits

\* C12: the snippet of every returned result is the first 200 characters of
\* the document's text followed by the ellipsis marker, and the snippet of a
\* document with an empty text is the empty string.
C12_SnippetOfText ==
    IsSearch =>
        \A p \in 1 .. Len(final_output) :
            LET r == final_output[p]
            IN  IF r.document = 0
                THEN r.snippet = [prefix |-> 0, marker |-> FALSE]
                ELSE r.snippet = [prefix |-> Min(r.document, SnippetLimit),
                                  marker |-> TRUE]

\* C13: every returned result carries the raw scores of its document for the
\* query: dense_score is the document's cosine similarity and bm25_score its
\* BM25 score, also when the document is in only one of the two pools.
C13_RawScoresOfDocument ==
    IsSearch =>
        \A p \in 1 .. Len(final_output) :
            LET r == final_output[p]
            IN  /\ r.dense_score = dense_all[r.doc]
                /\ r.bm25_score = bm25_scores_all[r.doc]

SearchEnded(t) == req[t].called /\ req[t].pc \in {"searched", "responded"}

\* C14: if the query encoder, the dense index search or the BM25 scoring
\* raises during search, search raises that failure to its caller and
\* returns no result list; it does not rank with the remaining modality.
C14_FailurePropagates ==
    \A t \in Threads :
        req[t].fault # "none" =>
            /\ SearchEnded(t)
            /\ req[t].raised = req[t].fault
            /\ req[t].results = <<>>

\* C14 witness: the BM25 scoring raised in a call whose dense search had
\* succeeded and which would have returned results.
C14_Witness ==
    \E t \in Threads :
        /\ req[t].pc = "searched"
        /\ req[t].fault = "bm25"
        /\ search(req[t].k).final_output # <<>>

C16_NoQueryBeforeReady ==
    /\ [](searcher # "None" => (build_pc = "built" /\ build_error = "none"))
    /\ [](build_pc = "failed" => searcher = "None")
    /\ [](\A t \in Threads : req[t].called => build_pc = "built")
    /\ [][\A t \in Threads :
             (/\ ~InFlight(t)
              /\ req'[t] # req[t]
              /\ (searcher = "None" \/ ~available))
             => /\ req'[t].pc = "responded"
                /\ req'[t].response.status = StatusUnavailable
                /\ ~req'[t].called]_vars

\* C16 witness: after a failed construction the service is serving and has
\* answered a request 503.
C16_Witness ==
    /\ build_pc = "failed"
    /\ lifespan_pc = "serving"
    /\ \E t \in Threads :
          /\ req[t].pc = "responded"
          /\ req[t].response.status = StatusUnavailable

\* C17: a request whose search raised is answered with an HTTP error status
\* and no result list; a request whose search succeeded with zero results is
\* answered 200 with an empty list.
C17_ErrorDistinctFromEmpty ==
    \A t \in Threads :
        req[t].pc = "responded" =>
            /\ req[t].raised # "none" =>
                  /\ req[t].response.status >= 400
                  /\ req[t].response.detail = req[t].raised
            /\ (req[t].called /\ req[t].raised = "none"
                   /\ req[t].results = <<>>) =>
                  /\ req[t].response.status = StatusOK
                  /\ req[t].response.results = <<>>

\* C17 witness: one request was answered 500 after its search raised, the
\* other was answered 200 with the empty list its search returned.
C17_Witness ==
    \E t, u \in Threads :
        /\ req[t].pc = "responded"
        /\ req[t].raised # "none"
        /\ req[t].response.status = StatusServerError
        /\ req[u].pc = "responded"
        /\ req[u].called
        /\ req[u].raised = "none"
        /\ req[u].results = <<>>
        /\ req[u].response.status = StatusOK

BuildEnded == build_pc \in {"built", "failed"}
\* the cache file exists but cannot be read, cannot be unpickled, or
\* unpickles to something other than a BM25 index over this collection
CacheIsBad ==
    \/ cache_file.kind \in {"unreadable", "garbage", "object"}
    \/ cache_file.kind = "index" /\ cache_file.docs # store.docs

\* C18: when the BM25 cache file exists but is corrupted or incompatible,
\* _build_bm25_index does not keep the loaded object: it rebuilds the index
\* from the document texts, raises nothing, and the searcher ends with a
\* well-formed index over its collection.
C18_BadCacheRebuilt ==
    [][(/\ build_pc = "faiss_built"
        /\ build_pc' # build_pc
        /\ CacheIsBad
        /\ "document" \in store.columns)
       => /\ build_pc' = "built"
          /\ build_error' = "none"
          /\ bm25' = BM25Okapi(store.docs)]_vars

\* C19: construction fails with an error whenever the persisted collection
\* lacks the embedding column or the document column, whatever the cache
\* file holds.
C19_MissingColumnFails ==
    (BuildEnded /\ store.exists /\ store.columns # Columns) =>
        /\ build_pc = "failed"
        /\ build_error # "none"

\* C20: a collection of zero documents can be built into a searcher: the
\* construction ends without an error, with an empty dense index.
C20_EmptyCorpusBuilds ==
    (BuildEnded /\ store.exists /\ store.docs = 0 /\ store.columns = Columns) =>
        /\ build_pc = "built"
        /\ build_error = "none"
        /\ faiss_ntotal = 0

\* C21: the number of neighbours requested from the dense index is clamped to
\* the index size: on a corpus smaller than the pool size the dense pool
\* holds exactly one entry per document, and no placeholder entry (a
\* position outside the index, the sentinel score) is in the dense pool, in
\* its min-max normalization or in the union.
C21_DenseRequestClamped ==
    (IsSearch /\ dataset_len < candidate_limit) =>
        /\ DOMAIN dense_hits = Positions
        /\ NegFltMax \notin Range(dense_hits)
        /\ \A p \in 1 .. Len(combined_results) :
              /\ combined_results[p].idx \in Positions
              /\ combined_results[p].dense_score # NegFltMax

\* C22: in every search every candidate position of the union, from the
\* dense pool or from the sparse pool, satisfies 0 <= position < size of the
\* Document Store, and every returned result is the document at the
\* position that was scored.
C22_PositionsWithinStore ==
    IsSearch =>
        /\ \A idx \in PoolKeys : 0 <= idx /\ idx < dataset_len
        /\ \A p \in 1 .. Len(final_output) :
              final_output[p].doc = combined_results[p].idx

\* C23: the sparse pool is the set of the N positions with the highest BM25
\* scores over all documents of the corpus (all positions when the corpus
\* has fewer than N documents), N being the pool size candidate_limit: the
\* pool has min(N, corpus size) members, each with its own BM25 score, and no
\* document outside the pool has a strictly higher BM25 score than a
\* document inside it.
C23_SparsePoolIsTopN ==
    IsSearch =>
        /\ DOMAIN sparse_hits \subseteq Positions
        /\ Cardinality(DOMAIN sparse_hits) = Min(candidate_limit, dataset_len)
        /\ \A j \in DOMAIN sparse_hits : sparse_hits[j] = bm25_scores_all[j]
        /\ LET lowest == SetMin(Range(sparse_hits))
           IN  \A i \in Positions \ DOMAIN sparse_hits :
                  bm25_scores_all[i] <= lowest

\* C23 witness: on a corpus larger than the pool size a call left a document
\* out of the sparse pool whose BM25 score is strictly below every score of
\* the pool, and the pool holds documents with different scores.
C23_Witness ==
    /\ IsSearch
    /\ dataset_len > candidate_limit
    /\ Cardinality(DOMAIN sparse_hits) = candidate_limit
    /\ \E i \in Positions \ DOMAIN sparse_hits :
          bm25_scores_all[i] < SetMin(Range(sparse_hits))
    /\ Cardinality(Range(sparse_hits)) >= 2

AllProcsDone == \A p \in Procs : proc[p].pc = "done"

C25_ManualModePausesReplies ==
    [][(listener.auto_reply /\ Len(outbox') > Len(outbox)) =>
          LET o == outbox'[Len(outbox')]
          IN  ~(o.thread_id \in DOMAIN threads
                /\ threads[o.thread_id].manual_mode)]_vars

\* C26: add_email is idempotent: adding an email that was added before
\* returns the thread id of the first call and stores no further message,
\* while an email that was not added before is stored, also a sent reply
\* without uid and message_id that differs from the replies added before.
C26_AddEmailIdempotent ==
    \A j \in 1 .. Len(added) :
        LET before == {i \in 1 .. j - 1 : added[i].email = added[j].email}
        IN  IF before # {}
            THEN /\ ~added[j].stored
                 /\ \A i \in before : added[i].thread_id = added[j].thread_id
            ELSE added[j].stored

\* C27: no document appears twice in one result list: the results returned
\* by one call of search are pairwise different documents of the Document
\* Store, for every corpus size.
C27_NoDocumentTwice ==
    IsSearch =>
        \A p, q \in 1 .. Len(final_output) :
            p # q => final_output[p].doc # final_output[q].doc

\* each pool has at least 2 distinct raw scores
BothPoolsSpread ==
    /\ Cardinality(Range(dense_hits)) >= 2
    /\ Cardinality(Range(sparse_hits)) >= 2
\* the positions, in the sorted candidate list, of the candidates that hold
\* the maximum raw score of the dense pool and that of the sparse pool
BothMaximaRanks ==
    LET dmax == SetMax(Range(dense_hits))
        smax == SetMax(Range(sparse_hits))
    IN  {p \in 1 .. Len(combined_results) :
            LET idx == combined_results[p].idx
            IN  /\ idx \in DOMAIN dense_hits
                /\ idx \in DOMAIN sparse_hits
                /\ dense_hits[idx] = dmax
                /\ sparse_hits[idx] = smax}
RatOne == <<1, 1>>
ScoresWithinUnit ==
    \A p \in 1 .. Len(combined_results) :
        /\ RatLeq(RatZero, combined_results[p].combined_score)
        /\ RatLeq(combined_results[p].combined_score, RatOne)

RankOf(idx) ==
    CHOOSE p \in 1 .. Len(combined_results) : combined_results[p].idx = idx

\* C29: ranking is monotone in the raw scores: for two candidates A and B
\* that are both in the dense pool and both in the sparse pool, if A's raw
\* dense score >= B's and A's raw BM25 score >= B's, then combined_score(A)
\* >= combined_score(B); if moreover one of the two is strictly greater, in
\* a pool that has 2 distinct scores, A is ranked before B.
C29_RankingMonotone ==
    IsSearch =>
        LET both == DOMAIN dense_hits \cap DOMAIN sparse_hits
            dspread == Cardinality(Range(dense_hits)) >= 2
            sspread == Cardinality(Range(sparse_hits)) >= 2
        IN  \A a, b \in both :
                (dense_hits[a] >= dense_hits[b]
                 /\ sparse_hits[a] >= sparse_hits[b]) =>
                    /\ RatLeq(combined_results[RankOf(b)].combined_score,
                              combined_results[RankOf(a)].combined_score)
                    /\ (\/ dense_hits[a] > dense_hits[b] /\ dspread
                        \/ sparse_hits[a] > sparse_hits[b] /\ sspread)
                          => RankOf(a) < RankOf(b)

\* the replies sent to the email uid
RepliesTo(uid) == {p \in 1 .. Len(outbox) : outbox[p].uid = uid}

\* C30: a pass of the listener over an incoming email records the email's
\* uid as processed exactly when the email was skipped by the filter, or a
\* reply was generated and, with auto_reply, sent successfully or, without
\* auto_reply, only generated; when no reply was generated or the sending
\* failed the uid is not recorded.  An email whose uid is recorded is never
\* fetched for processing, and at most one automatic reply is sent per
\* recorded uid.
C30_ProcessedExactlyWhenHandled ==
    /\ [][(listener.pc = "loop" /\ listener' # listener) =>
             LET uid == listener.emails[listener.i]
                 last == listener'.last
             IN  /\ last.uid = uid
                 /\ uid \in Range(processed')
                       <=> \/ last.skipped
                           \/ last.replied /\ listener.auto_reply /\ last.sent
                           \/ last.replied /\ ~listener.auto_reply]_vars
    /\ [](\A p \in 1 .. Len(listener.emails) :
             p >= listener.i => listener.emails[p] \notin Range(processed))
    /\ [](\A uid \in Range(processed) : Cardinality(RepliesTo(uid)) <= 1)

====
